---- MODULE Spec2Model ----
(***************************************************************************)
(* A model of cltoolbox (src/src/cltoolbox/cltoolbox.py): the merge        *)
(* engine that turns a function signature, its docstring and the @arg      *)
(* overrides into argument specifications, command registration on the     *)
(* sub-program tree, and dispatch (parse / execute).                       *)
(*                                                                         *)
(* Python values are written as strings in their repr() form ("None",      *)
(* "True", "1", "1.1", "'s'", "[1, 2]"); types by their names ("int").     *)
(* A dict is a function from its keys; a list or tuple is a sequence.      *)
(***************************************************************************)
EXTENDS Integers, Sequences, FiniteSets, TLC

VARIABLES
    signatures,       \* SubProgram._signatures: function name -> signature
    tree,             \* the parsers by their path of subcommand names: path -> [kind, args, dispatch]
    argopts,          \* func.argopts of every function object
    options,          \* Program._options (the namespace of the last parse_args)
    current_command,  \* Program._current_command
    last,             \* what the last call did (its outcome and what it returned)
    resolved,         \* history: own name of the function the last resolving execute resolved
    runs,             \* history: how many parse and execute calls were made
    pin,              \* input of the pure function under check
    pout              \* its output

vars == <<signatures, tree, argopts, options, current_command, last, resolved, runs, pin, pout>>

progVars == <<signatures, tree, argopts, options, current_command, last, resolved, runs>>

-----------------------------------------------------------------------------
(* Python values *)

None == "None"
\* inspect.Signature.empty / inspect.Parameter.empty
Empty == "<empty>"
\* an instance of _POSITIONAL
Positional == "<_positional>"

Bools == {"True", "False"}
IntVals == {"1", "2", "3"}
FloatVals == {"1.1", "3.0"}
StrVals == {"'s'", "'string'", "'3'", "'x'", "'test'"}
ListVals == {"[]", "[1, 2]", "[1, False]", "['a']"}

\* type(obj).__name__
TypeOf(obj) ==
    CASE obj \in Bools -> "bool"
      [] obj \in IntVals -> "int"
      [] obj \in FloatVals -> "float"
      [] obj \in StrVals -> "str"
      [] obj \in ListVals -> "list"
      [] obj = None -> "NoneType"
      [] OTHER -> "object"

EmptyDict == [k \in {} |-> None]

\* dict.update: the keys of b win
Update(a, b) ==
    [k \in DOMAIN a \cup DOMAIN b |-> IF k \in DOMAIN b THEN b[k] ELSE a[k]]

\* dict.get(key, dflt)
Get(d, key, dflt) == IF key \in DOMAIN d THEN d[key] ELSE dflt

Remove(d, keys) == [k \in DOMAIN d \ keys |-> d[k]]

\* str.startswith for a one-character prefix
StartsWith(s, c) == Len(s) > 0 /\ Head(s) = c

\* "-" * n
RECURSIVE Dashes(_)
Dashes(n) == IF n = 0 THEN "" ELSE "-" \o Dashes(n - 1)

\* int(b) of a Python bool
BoolInt(b) == IF b THEN 1 ELSE 0

\* the sequences over S of length at most n
RECURSIVE SeqsUpTo(_, _)
SeqsUpTo(S, n) ==
    IF n = 0 THEN {<<>>}
    ELSE LET shorter == SeqsUpTo(S, n - 1)
         IN  shorter \cup {Append(q, e) : q \in {r \in shorter : Len(r) = n - 1}, e \in S}

-----------------------------------------------------------------------------
(* The leaves of the merge engine *)

_purify_kwargs_keeps_null(kwargs) == kwargs

_purify_kwargs(kwargs) ==
    [k \in {k \in DOMAIN kwargs : ~(k \in {"type", "metavar"} /\ kwargs[k] = None)}
        |-> kwargs[k]]

_get_type(obj) ==
    IF TypeOf(obj) \in {"int", "float", "str", "bool"}
    THEN [type |-> TypeOf(obj)]
    ELSE EmptyDict

_action_by_type(obj) ==
    IF TypeOf(obj) = "bool"
    THEN [action |-> IF obj = "True" THEN "store_false" ELSE "store_true"]
    ELSE IF TypeOf(obj) = "list"
         THEN Update([action |-> "append"], _get_type(obj))
         ELSE _get_type(obj)

_ensure_dashes_two(opts) ==
    [i \in 1..Len(opts) |->
        IF StartsWith(opts[i], "-") THEN opts[i] ELSE "--" \o opts[i]]

_ensure_dashes(opts) ==
    [i \in 1..Len(opts) |->
        IF StartsWith(opts[i], "-")
        THEN opts[i]
        ELSE Dashes(1 + BoolInt(Len(opts[i]) > 1)) \o opts[i]]

\* an @arg override is <<args, kwargs>>; none is <<<<>>, EmptyDict>>
NoOverride == <<<<>>, EmptyDict>>

merge_union(arg, default, override, args, kwargs) ==
    LET pos == default = Positional
        opts == IF pos THEN <<arg>>
                ELSE _ensure_dashes(IF args # <<>> THEN args ELSE <<arg>>)
        kw == IF pos
              THEN Update(kwargs, [metavar |-> None])
              ELSE Update(kwargs,
                          Update([default |-> default, dest |-> arg],
                                 _action_by_type(default)))
    IN  <<override[1] \o opts, Update(override[2], kw)>>

merge(arg, default, override, args, kwargs) ==
    LET pos == default = Positional
        opts == IF pos THEN <<arg>>
                ELSE _ensure_dashes(IF args # <<>> THEN args ELSE <<arg>>)
        kw == IF pos
              THEN Update(kwargs, [metavar |-> None])
              ELSE Update(kwargs,
                          Update([default |-> default, dest |-> arg],
                                 _action_by_type(default)))
    IN  <<IF override[1] # <<>> THEN override[1] ELSE opts, Update(kw, override[2])>>

-----------------------------------------------------------------------------
(* The docstring normalizer.  A docstring is a sequence of lines; the       *)
(* external docstring_parser is modelled by what it returns for them:       *)
(* the text before the first parameter field is the description (its first *)
(* line the short one, the rest the long one), every parameter field       *)
(* gives one entry of doc.params.                                           *)

BlankLine == [k |-> "blank", name |-> "", text |-> "", dflt |-> None]
TextLine(t) == [k |-> "text", name |-> "", text |-> t, dflt |-> None]
ParamLine(n, d) == [k |-> "param", name |-> n, text |-> d, dflt |-> None]

RECURSIVE StripLeft(_)
StripLeft(ls) ==
    IF ls # <<>> /\ Head(ls).k = "blank" THEN StripLeft(Tail(ls)) ELSE ls

RECURSIVE StripRight(_)
StripRight(ls) ==
    IF ls # <<>> /\ ls[Len(ls)].k = "blank"
    THEN StripRight(SubSeq(ls, 1, Len(ls) - 1))
    ELSE ls

\* "\n".join(the lines' text)
RECURSIVE JoinLines(_)
JoinLines(ls) ==
    IF ls = <<>> THEN ""
    ELSE IF Len(ls) = 1 THEN ls[1].text
    ELSE ls[1].text \o "\n" \o JoinLines(Tail(ls))

SelectParams(ls) == SelectSeq(ls, LAMBDA l : l.k = "param")

\* docstring_parser.parse: [short_description, long_description, params]
ds_parse(dstr) ==
    LET text == StripRight(StripLeft(dstr))
        metas == {i \in 1..Len(text) : text[i].k = "param"}
        cut == IF metas = {} THEN Len(text) + 1
               ELSE CHOOSE i \in metas : \A j \in metas : i <= j
        desc == SubSeq(text, 1, cut - 1)
        rest == StripRight(StripLeft(IF desc = <<>> THEN <<>> ELSE Tail(desc)))
        fields == SelectParams(SubSeq(text, cut, Len(text)))
    IN  [short_description |-> IF desc = <<>> THEN None ELSE desc[1].text,
         long_description |-> IF rest = <<>> THEN None ELSE JoinLines(rest),
         params |-> [i \in 1..Len(fields) |->
                        [arg_name |-> fields[i].name,
                         description |-> fields[i].text,
                         default |-> fields[i].dflt]]]

\* k.replace("-", "_")
RECURSIVE ReplaceDashes(_)
ReplaceDashes(s) ==
    IF Len(s) = 0 THEN ""
    ELSE (IF Head(s) = "-" THEN "_" ELSE SubSeq(s, 1, 1)) \o ReplaceDashes(Tail(s))

\* k.lstrip("_")
RECURSIVE LStripUnderscores(_)
LStripUnderscores(s) ==
    IF StartsWith(s, "_") THEN LStripUnderscores(Tail(s)) ELSE s

NormalizeKey(k) == LStripUnderscores(ReplaceDashes(k))

\* Python's `a or b` on descriptions: None and "" are falsy
Or(a, b) == IF a = None \/ a = "" THEN b ELSE a

\* The two dict comprehensions of docstring(): doc_params keeps, for a name
\* given twice, the place of its first field and the value of its last one;
\* the re-keyed dict keeps, for a key reached twice, the later entry.
DocParams(params) ==
    LET names == {params[i].arg_name : i \in 1..Len(params)}
        first(a) == CHOOSE i \in 1..Len(params) :
                        /\ params[i].arg_name = a
                        /\ \A j \in 1..Len(params) : params[j].arg_name = a => i <= j
        lastOf(a) == CHOOSE i \in 1..Len(params) :
                        /\ params[i].arg_name = a
                        /\ \A j \in 1..Len(params) : params[j].arg_name = a => j <= i
        winner(k) == CHOOSE a \in names :
                        /\ NormalizeKey(a) = k
                        /\ \A b \in names : NormalizeKey(b) = k => first(b) <= first(a)
        entry(a) == <<<<a>>,
                      [metavar |-> None,
                       type |-> None,
                       help |-> params[lastOf(a)].description,
                       default |-> params[lastOf(a)].default]>>
    IN  [k \in {NormalizeKey(a) : a \in names} |-> entry(winner(k))]

docstring_no_fallback(dstr) ==
    LET doc == ds_parse(dstr)
    IN  [short_description |-> Or(doc.short_description, ""),
         long_description |-> doc.long_description,
         params |-> DocParams(doc.params)]

docstring(dstr) ==
    LET doc == ds_parse(dstr)
        long1 == Or(doc.long_description, doc.short_description)
    IN  [short_description |-> Or(doc.short_description, ""),
         long_description |-> Or(long1, ""),
         params |-> DocParams(doc.params)]

-----------------------------------------------------------------------------
(* Function objects and SubProgram._analyze_func.  A function is           *)
(* [name (its __name__), params (its signature), doc (its docstring)];     *)
(* a parameter is [name, kind, default, annotation], with Empty for a      *)
(* missing default or annotation and kind "VAR" for *args.                 *)

Param(n, k, d, a) == [name |-> n, kind |-> k, default |-> d, annotation |-> a]

\* inspect.signature(func)
Signature(func) == func.params

AnalyzeParam_overrides_variadic(param, overrides, doc_params) ==
    LET default == IF param.default = Empty THEN Positional ELSE param.default
        found == Get(doc_params, param.name, <<<<>>, EmptyDict>>)
        meta == Update(found[2],
                       [type |-> IF param.annotation # Empty
                                 THEN param.annotation ELSE None])
        override == Get(overrides, param.name, NoOverride)
    IN  IF param.kind = "VAR"
        THEN <<IF override[1] # <<>> THEN override[1] ELSE <<param.name>>,
               Update(Update([nargs |-> "*"], found[2]), override[2])>>
        ELSE merge(param.name, default, override, found[1], meta)

\* what one parameter of the signature yields
AnalyzeParam(param, overrides, doc_params) ==
    IF param.kind = "VAR"
    THEN <<<<param.name>>,
           Update([nargs |-> "*"], Get(doc_params, param.name, <<<<>>, EmptyDict>>)[2])>>
    ELSE LET default == IF param.default = Empty THEN Positional ELSE param.default
             found == Get(doc_params, param.name, <<<<>>, EmptyDict>>)
             meta == Update(found[2],
                            [type |-> IF param.annotation # Empty
                                      THEN param.annotation ELSE None])
             override == Get(overrides, param.name, NoOverride)
         IN  merge(param.name, default, override, found[1], meta)

_analyze_func(sigs, func, overrides, doc_params) ==
    LET sig == IF func.name \in DOMAIN sigs THEN sigs[func.name] ELSE Signature(func)
    IN  [i \in 1..Len(sig) |-> AnalyzeParam(sig[i], overrides, doc_params)]

\* what _generate_command hands to add_argument for one yielded spec
Handed(spec) == <<spec[1], _purify_kwargs(Remove(spec[2], {"completer"}))>>

-----------------------------------------------------------------------------
(* The state of a freshly constructed Program *)

\* the function objects the program registers (their argopts are state)
FuncIds == {"pow", "pow_x", "numpy"}

Func(id) ==
    CASE id = "pow" ->
            [name |-> "pow",
             params |-> <<Param("base", "POS", Empty, "int"), Param("exp", "POS", Empty, "int")>>,
             doc |-> <<TextLine("Compute base ^ exp.")>>]
      [] id = "pow_x" ->
            \* another function whose __name__ is "pow" too
            [name |-> "pow",
             params |-> <<Param("x", "POS", Empty, Empty), Param("rest", "VAR", Empty, Empty)>>,
             doc |-> <<TextLine("Powers of x."), BlankLine, ParamLine("x", "The base.")>>]
      [] id = "numpy" ->
            [name |-> "simple_numpy_docstring",
             params |-> <<Param("arg1", "POS", Empty, Empty), Param("arg2", "POS", "'string'", Empty)>>,
             doc |-> <<TextLine("One line summary."), BlankLine, TextLine("Extended description."),
                       BlankLine, ParamLine("arg1", "Description of arg1"),
                       ParamLine("arg2", "Description of arg2")>>]

\* an action of a parser, as add_argument keeps it
Action(opts, dest, kind, type, default, nargs) ==
    [opts |-> opts, dest |-> dest, kind |-> kind, type |-> type,
     default |-> default, nargs |-> nargs]

HelpAction == Action(<<"-h", "--help">>, "help", "help", None, "<suppress>", None)
VersionAction == Action(<<"-v", "--version">>, "version", "version", None, "<suppress>", None)

\* a parser: of the program or of a sub-program ("program"), of a command
\* ("command"), or one no SubProgram object owns ("orphan")
Parser(kind, args, dispatch) == [kind |-> kind, args |-> args, dispatch |-> dispatch]

Root == <<>>

\* Program("example.py", "1.0.10"), as the tests construct it
FreshProgram ==
    /\ signatures = EmptyDict
    /\ argopts = [f \in FuncIds |-> EmptyDict]
    /\ options = <<>>
    /\ current_command = None
    /\ resolved = None
    /\ runs = 0
    /\ last = [op |-> "init"]
    /\ tree = [p \in {Root} |-> Parser("program", <<HelpAction, VersionAction>>, None)]

-----------------------------------------------------------------------------
(* argparse, as the program uses it (Python 3.11 and later): add_argument, *)
(* add_parser and parse_args.  A parsed value is Val(v) for one value and   *)
(* ListV(l) for the list a nargs="*" argument collects.                     *)

Val(v) == [t |-> "value", s |-> v, l |-> <<>>]
ListV(l) == [t |-> "list", s |-> "", l |-> l]
FuncV(f) == [t |-> "func", s |-> f, l |-> <<>>]

_DISPATCH_TO == "_dispatch_to"

\* str.lstrip("-")
RECURSIVE LStripDashes(_)
LStripDashes(s) == IF StartsWith(s, "-") THEN LStripDashes(Tail(s)) ELSE s

\* _get_optional_kwargs: the dest of an optional
OptionDest(args, kw) ==
    IF "dest" \in DOMAIN kw /\ kw["dest"] # None
    THEN kw["dest"]
    ELSE LET longs == SelectSeq(args, LAMBDA o : Len(o) > 1 /\ SubSeq(o, 2, 2) = "-")
             pick == IF longs # <<>> THEN longs[1] ELSE args[1]
         IN  ReplaceDashes(LStripDashes(pick))

IsPositionalCall(args) == Len(args) = 1 /\ ~StartsWith(args[1], "-")

\* parser.add_argument(*args, **kw) on a parser holding the actions
\* `existing`: the error it raises (None for none) and the action it adds
add_argument(existing, args, kw) ==
    LET positional == IsPositionalCall(args)
        kind == Get(kw, "action", "store")
        dest == IF positional THEN args[1] ELSE OptionDest(args, kw)
        flag == kind \in {"store_true", "store_false"}
        err == IF positional /\ "dest" \in DOMAIN kw THEN "ValueError"
               ELSE IF ~positional /\ \E i \in 1..Len(args) : ~StartsWith(args[i], "-")
                    THEN "ValueError"
               ELSE IF ~positional /\ dest = "" THEN "ValueError"
               ELSE IF flag /\ DOMAIN kw \cap {"type", "metavar", "nargs"} # {}
                    THEN "TypeError"
               ELSE IF ~positional /\ \E i \in 1..Len(args), j \in 1..Len(existing) :
                                         \E k \in 1..Len(existing[j].opts) :
                                             existing[j].opts[k] = args[i]
                    THEN "ArgumentError"
               ELSE None
        default == IF "default" \in DOMAIN kw THEN kw["default"]
                   ELSE IF kind = "store_true" THEN "False"
                   ELSE IF kind = "store_false" THEN "True"
                   ELSE None
    IN  [err |-> err,
         action |-> Action(IF positional THEN <<>> ELSE args, dest, kind,
                           Get(kw, "type", None), default, Get(kw, "nargs", None))]

\* the tokens of a command line, and type(token) for the types used;
\* "<error>" when the conversion raises
Tokens == {"'3'", "'x'"}

Coerce(type, token) ==
    CASE type = None -> token
      [] type = "str" -> token
      [] type = "int" -> IF token = "'3'" THEN "3" ELSE "<error>"
      [] type = "float" -> IF token = "'3'" THEN "3.0" ELSE "<error>"
      [] type = "bool" -> "True"
      [] OTHER -> "<error>"

\* a default that is a string goes through the type as a token does
DefaultOf(a) ==
    IF a.type # None /\ TypeOf(a.default) = "str" THEN Coerce(a.type, a.default) ELSE a.default

MaxVarArgs == 2

\* what a command line can give for one action: no token, one, or several
Supplies(a) ==
    CASE a.kind \in {"help", "version"} -> {<<>>}
      [] a.opts = <<>> /\ a.nargs = "*" -> SeqsUpTo(Tokens, MaxVarArgs)
      [] a.opts = <<>> -> {<<t>> : t \in Tokens}
      [] a.kind \in {"store_true", "store_false"} -> {<<>>, <<"'3'">>}
      [] OTHER -> {<<>>} \cup {<<t>> : t \in Tokens}

NoSupply(args) == [i \in 1..Len(args) |-> <<>>]

RECURSIVE SuppliesFrom(_, _)
SuppliesFrom(args, i) ==
    IF i > Len(args) THEN {<<>>}
    ELSE {<<t>> \o rest : t \in Supplies(args[i]), rest \in SuppliesFrom(args, i + 1)}

AllSupplies(args) == SuppliesFrom(args, 1)

\* the defaults parse_args sets first: the first action of a dest decides
RECURSIVE SetDefaults(_, _, _)
SetDefaults(args, i, ns) ==
    IF i > Len(args) THEN ns
    ELSE LET a == args[i]
         IN  IF a.default = "<suppress>" \/ a.dest \in DOMAIN ns
             THEN SetDefaults(args, i + 1, ns)
             ELSE SetDefaults(args, i + 1, Update(ns, [d \in {a.dest} |-> Val(DefaultOf(a))]))

\* the value an action stores for the tokens it got
Stored(a, toks) ==
    CASE a.kind = "store_true" -> Val("True")
      [] a.kind = "store_false" -> Val("False")
      [] a.nargs = "*" ->
            IF toks = <<>> /\ a.opts = <<>> /\ a.default # None
            THEN Val(DefaultOf(a))
            ELSE ListV([j \in 1..Len(toks) |-> Coerce(a.type, toks[j])])
      [] a.kind = "append" -> ListV(<<Coerce(a.type, toks[1])>>)
      [] OTHER -> Val(Coerce(a.type, toks[1]))

RECURSIVE SetSupplied(_, _, _, _)
SetSupplied(args, sup, i, ns) ==
    IF i > Len(args) THEN ns
    ELSE LET a == args[i]
         IN  IF a.kind \in {"help", "version"} \/ (sup[i] = <<>> /\ a.opts # <<>>)
             THEN SetSupplied(args, sup, i + 1, ns)
             ELSE SetSupplied(args, sup, i + 1,
                              Update(ns, [d \in {a.dest} |-> Stored(a, sup[i])]))

ConversionFails(ns) ==
    \E d \in DOMAIN ns :
        \/ ns[d].s = "<error>"
        \/ \E j \in 1..Len(ns[d].l) : ns[d].l[j] = "<error>"

\* the namespace one parser fills from the tokens given for its actions
ParserNamespace(parser, sup) ==
    LET ns == SetSupplied(parser.args, sup, 1, SetDefaults(parser.args, 1, EmptyDict))
    IN  IF parser.dispatch # None
        THEN Update(ns, [d \in {_DISPATCH_TO} |-> FuncV(parser.dispatch)])
        ELSE ns

\* parser.parse_args for a command line that walks down `path` and gives
\* `sup` to the parser it ends in (the options of the parsers above it are
\* left to their defaults); the values of a subparser overwrite those above
RECURSIVE ChainNamespace(_, _, _, _)
ChainNamespace(parsers, path, n, sup) ==
    LET here == SubSeq(path, 1, n)
        own == ParserNamespace(parsers[here],
                               IF n = Len(path) THEN sup ELSE NoSupply(parsers[here].args))
    IN  IF n = 0 THEN own
        ELSE Update(ChainNamespace(parsers, path, n - 1, sup), own)

parse_args(parsers, path, sup) == ChainNamespace(parsers, path, Len(path), sup)

-----------------------------------------------------------------------------
(* The program: the decoration-time calls (arg, command, option,          *)
(* add_subprog) and the run-time calls (parse, execute).                    *)

\* how many decoration-time calls that took effect a run makes at most
MaxCalls == 2

\* the explicit command names tried (None: the function's own name)
CommandNames == {None, "run"}

SubNames == {"sub", "name"}

\* the option() calls tried: <<args, kwargs>>
OptionCalls ==
    { <<<<"--foo">>, EmptyDict>>,
      <<<<"-f">>, [dest |-> "foo"]>>,
      <<<<"--name">>, EmptyDict>>,
      <<<<"--sub">>, [action |-> "store_true"]>>,
      <<<<"foo">>, EmptyDict>> }

\* the arg() calls tried: <<function, param, override>>
ArgCalls ==
    { <<"numpy", "arg2", <<<<"-a", "--arg2">>, [metavar |-> "'<a>'"]>>>>,
      <<"numpy", "arg2", <<<<>>, [dest |-> "other"]>>>>,
      <<"pow", "base", <<<<"-b">>, EmptyDict>>>> }

\* attributes every SubProgram object has, and those a Program adds
SubProgramAttrs ==
    {"parser", "_subparsers", "_signatures", "name", "option", "add_subprog",
     "command", "arg", "_generate_command", "_analyze_func"}
ProgramAttrs == {"_options", "_current_command", "parse", "execute"}

\* hasattr(node, x) for the SubProgram object of the parser at `path`: its
\* class and instance attributes, the sub-programs set on it, and on the
\* root, through Program.__getattr__, the attributes of the last namespace
\* vars(node) alone: the instance attributes, without those of the class
\* and without the forwarding to the namespace
HasAttr_vars(parsers, opts, path, x) ==
    \/ x \in {"parser", "_subparsers", "_signatures"}
    \/ Append(path, x) \in DOMAIN parsers /\ parsers[Append(path, x)].kind = "program"
    \/ path = Root /\ x \in {"_options", "_current_command"}

HasAttr(parsers, opts, path, x) ==
    \/ x \in SubProgramAttrs
    \/ Append(path, x) \in DOMAIN parsers /\ parsers[Append(path, x)].kind = "program"
    \/ path = Root /\ x \in ProgramAttrs
    \/ path = Root /\ opts # <<>> /\ x \in DOMAIN opts[1]

\* the decoration-time calls that took effect: the parsers added, the
\* options added and the overrides attached
Calls ==
    Cardinality(DOMAIN tree \ {Root})
    + Cardinality(UNION {{<<q, i>> : i \in {j \in 1..Len(tree[q].args) :
                                              tree[q].args[j].kind \notin {"help", "version"}}} :
                         q \in {n \in DOMAIN tree : tree[n].kind = "program"}})
    + Cardinality(UNION {{<<f, n>> : n \in DOMAIN argopts[f]} : f \in FuncIds})

AddParser(parsers, path, parser) ==
    [q \in DOMAIN parsers \cup {path} |-> IF q = path THEN parser ELSE parsers[q]]

\* the nodes a decoration-time call can be made on
Nodes == {q \in DOMAIN tree : tree[q].kind = "program"}

\* @arg(param, *args, **kwargs) applied to a function
Arg(f, param, override) ==
    /\ argopts' = [argopts EXCEPT ![f] = Update(@, [n \in {param} |-> override])]
    /\ last' = [op |-> "arg", f |-> f, param |-> param]
    /\ UNCHANGED <<signatures, tree, options, current_command, resolved, runs, pin, pout>>

\* line 288: the signature is recorded under the function's own name
RecordSignature(sigs, func) == Update(sigs, [n \in {func.name} |-> Signature(func)])

\* the loop of _generate_command over the yielded specs: add_argument on
\* each in turn, until one raises
RECURSIVE AddArguments(_, _, _)
AddArguments(existing, specs, i) ==
    IF i > Len(specs) THEN [err |-> None, args |-> existing]
    ELSE LET h == Handed(specs[i])
             r == add_argument(existing, h[1], h[2])
         IN  IF r.err # None THEN [err |-> r.err, args |-> existing]
             ELSE AddArguments(Append(existing, r.action), specs, i + 1)

\* node.command(...)(func): SubProgram._generate_command
Command(path, f, name) ==
    LET func == Func(f)
        cmd == IF name # None THEN name ELSE func.name
        np == Append(path, cmd)
        sigs == RecordSignature(signatures, func)
        specs == _analyze_func(sigs, func, argopts[f], docstring(func.doc).params)
        r == AddArguments(<<HelpAction>>, specs, 1)
    IN  /\ path \in Nodes
        /\ IF np \in DOMAIN tree
           THEN \* add_parser raises: the name is taken
                /\ last' = [op |-> "command", path |-> path, f |-> f, name |-> cmd,
                            outcome |-> "ArgumentError"]
                /\ UNCHANGED <<signatures, tree>>
           ELSE /\ signatures' = sigs
                /\ tree' = AddParser(tree, np,
                                     Parser("command", r.args, IF r.err = None THEN f ELSE None))
                /\ last' = [op |-> "command", path |-> path, f |-> f, name |-> cmd,
                            outcome |-> IF r.err = None THEN "ok" ELSE r.err]
        /\ UNCHANGED <<argopts, options, current_command, resolved, runs, pin, pout>>

\* node.option(*args, **kwargs)
Option(path, args, kw) ==
    LET r == add_argument(tree[path].args, args, Remove(kw, {"completer"}))
        dashed == args # <<>> /\ \A i \in 1..Len(args) : StartsWith(args[i], "-")
        dest == IF dashed THEN r.action.dest ELSE None
        dup == \E i \in 1..Len(tree[path].args) :
                  /\ tree[path].args[i].kind \notin {"help", "version"}
                  /\ tree[path].args[i].dest = dest
        clash == dashed /\ HasAttr(tree, options, path, dest)
        repeats == \E i \in 1..Len(args), j \in 1..Len(tree[path].args) :
                      \E k \in 1..Len(tree[path].args[j].opts) :
                          tree[path].args[j].opts[k] = args[i]
        added == dashed /\ r.err = None
        outcome == IF ~dashed THEN "AssertionError"
                   ELSE IF r.err # None THEN r.err
                   ELSE IF HasAttr(tree, options, path, r.action.dest) THEN "AssertionError"
                   ELSE "ok"
    IN  /\ path \in Nodes
        /\ tree' = IF added THEN [tree EXCEPT ![path].args = Append(@, r.action)] ELSE tree
        /\ last' = [op |-> "option", path |-> path, dest |-> dest, outcome |-> outcome,
                    dup |-> dup, clash |-> clash, repeats |-> repeats, added |-> added]
        /\ UNCHANGED <<signatures, argopts, options, current_command, resolved, runs, pin, pout>>

\* node.add_subprog(name)
AddSubprog(path, name) ==
    LET np == Append(path, name)
        taken == np \in DOMAIN tree
        clash == HasAttr(tree, options, path, name)
        dup == taken /\ tree[np].kind = "program"
        outcome == IF taken THEN "ArgumentError"
                   ELSE IF HasAttr(tree, options, path, name) THEN "AssertionError"
                   ELSE "ok"
    IN  /\ path \in Nodes
        /\ tree' = IF taken THEN tree
                   ELSE AddParser(tree, np,
                                  Parser(IF outcome = "ok" THEN "program" ELSE "orphan",
                                         <<HelpAction>>, None))
        /\ last' = [op |-> "add_subprog", path |-> path, name |-> name, outcome |-> outcome,
                    dup |-> dup, clash |-> clash, added |-> ~taken]
        /\ UNCHANGED <<signatures, argopts, options, current_command, resolved, runs, pin, pout>>

\* the loop of Program.parse over the registered signature: each name is
\* popped from arg_map, a variadic one spliced into real_args
RECURSIVE Reassemble(_, _, _, _)
Reassemble(sig, i, arg_map, real_args) ==
    IF i > Len(sig)
    THEN [err |-> None, arg_map |-> arg_map, real_args |-> real_args]
    ELSE LET name == sig[i].name
         IN  IF sig[i].kind = "VAR"
             THEN IF name \notin DOMAIN arg_map
                  THEN Reassemble(sig, i + 1, arg_map, real_args)
                  ELSE IF arg_map[name].t = "list"
                  THEN Reassemble(sig, i + 1, Remove(arg_map, {name}),
                                  real_args \o [j \in 1..Len(arg_map[name].l) |->
                                                   Val(arg_map[name].l[j])])
                  ELSE \* extend() of a value that is no list (None)
                       [err |-> "TypeError", arg_map |-> Remove(arg_map, {name}),
                        real_args |-> real_args]
             ELSE IF name \in DOMAIN arg_map
                  THEN Reassemble(sig, i + 1, Remove(arg_map, {name}),
                                  Append(real_args, arg_map[name]))
                  ELSE [err |-> "KeyError", arg_map |-> arg_map, real_args |-> real_args]

\* lines 385-389: parse_args accepts the command line or ends in a usage
\* error, and so does parse when no command was picked
Accepted(ns) ==
    IF ConversionFails(ns) THEN [ok |-> FALSE, ns |-> EmptyDict] ELSE [ok |-> TRUE, ns |-> ns]

ParseArgs(parsers, path, sup) ==
    IF path \in DOMAIN parsers
    THEN Accepted(parse_args(parsers, path, sup))
    ELSE [ok |-> FALSE, ns |-> EmptyDict]

\* line 401: what parse returns after the walk, or the error the walk raised
Returned(ns, command, r) ==
    [outcome |-> IF r.err # None THEN r.err ELSE "returned",
     accepted |-> TRUE,
     ns |-> ns,
     arg_map |-> r.arg_map,
     command |-> command,
     real_args |-> r.real_args]

\* lines 391-399: the command is taken out of arg_map and the signature
\* registered under its own name is walked
Dispatch(sigs, arg_map, command) ==
    Returned(arg_map, command,
             Reassemble(sigs[Func(command).name], 1, Remove(arg_map, {_DISPATCH_TO}), <<>>))

ParseAccepted(sigs, a) ==
    IF a.ok /\ _DISPATCH_TO \in DOMAIN a.ns
    THEN Dispatch(sigs, a.ns, a.ns[_DISPATCH_TO].s)
    ELSE [outcome |-> "usage_error", accepted |-> a.ok, ns |-> a.ns, arg_map |-> a.ns,
          command |-> None, real_args |-> <<>>]

\* Program.parse(args) for the command line <<path, sup>>
parse(parsers, sigs, path, sup) == ParseAccepted(sigs, ParseArgs(parsers, path, sup))

\* the command lines tried: a path of subcommand names (one of them names
\* no parser) and the tokens given to the parser it ends in
CommandLines ==
    UNION {{<<q, sup>> : sup \in AllSupplies(tree[q].args)} : q \in DOMAIN tree}

\* whether func(*real_args) binds its parameters
Binds(func, real_args) ==
    LET fixed == Cardinality({i \in 1..Len(func.params) : func.params[i].kind # "VAR"})
    IN  IF \E i \in 1..Len(func.params) : func.params[i].kind = "VAR"
        THEN Len(real_args) >= fixed
        ELSE Len(real_args) = fixed

Report(op, path, r) ==
    [op |-> op, path |-> path, outcome |-> r.outcome, accepted |-> r.accepted,
     ns |-> r.ns, command |-> r.command,
     func |-> IF r.outcome = "returned" THEN r.command ELSE None,
     real_args |-> r.real_args,
     invoked |-> op = "execute" /\ r.outcome = "returned",
     bound |-> IF r.outcome = "returned" THEN Binds(Func(r.command), r.real_args) ELSE FALSE,
     before |-> current_command]

\* program.parse(argv): line 385 keeps the namespace in _options, and the
\* walk pops from that same object
HasParsed(path, r) ==
    /\ options' = IF r.accepted THEN <<r.arg_map>> ELSE options
    /\ last' = Report("parse", path, r)
    /\ runs' = runs + 1
    /\ UNCHANGED <<signatures, tree, argopts, current_command, resolved, pin, pout>>

Parse(path, sup) == HasParsed(path, parse(tree, signatures, path, sup))

\* program.execute(argv): parse, then _current_command is set and the
\* function called
HasExecuted(path, r) ==
    /\ options' = IF r.accepted THEN <<r.arg_map>> ELSE options
    /\ current_command' = IF r.outcome = "returned"
                          THEN Func(r.command).name ELSE current_command
    /\ resolved' = IF r.command # None THEN Func(r.command).name ELSE resolved
    /\ last' = Report("execute", path, r)
    /\ runs' = runs + 1
    /\ UNCHANGED <<signatures, tree, argopts, pin, pout>>

Execute(path, sup) == HasExecuted(path, parse(tree, signatures, path, sup))

Init ==
    /\ FreshProgram
    /\ pin = <<>>
    /\ pout = <<>>

\* how many command lines a run parses or executes at most
MaxRuns == 2

\* a run makes decoration-time calls while it has calls left, and parses
\* and executes command lines while it has runs left
MoreCalls == Calls < MaxCalls

MoreRuns == runs < MaxRuns

Next ==
    \/ MoreCalls /\ \E c \in ArgCalls : Arg(c[1], c[2], c[3])
    \/ MoreCalls /\ \E q \in DOMAIN tree, f \in FuncIds, n \in CommandNames : Command(q, f, n)
    \/ MoreCalls /\ \E q \in DOMAIN tree, o \in OptionCalls : Option(q, o[1], o[2])
    \/ MoreCalls /\ \E q \in DOMAIN tree, n \in SubNames : AddSubprog(q, n)
    \/ MoreRuns /\ \E cl \in CommandLines : Parse(cl[1], cl[2])
    \/ MoreRuns /\ \E cl \in CommandLines : Execute(cl[1], cl[2])
    \/ MoreRuns /\ Execute(<<"unknown">>, <<>>)

Spec == Init /\ [][Next]_vars

\* The configuration calls alone: a program that registers options and
\* sub-programs, and parses command lines in between.
MaxConfigCalls == 3

MoreConfigCalls == Calls < MaxConfigCalls

NextConfig ==
    \/ MoreConfigCalls /\ \E q \in DOMAIN tree, o \in OptionCalls : Option(q, o[1], o[2])
    \/ MoreConfigCalls /\ \E q \in DOMAIN tree, n \in SubNames : AddSubprog(q, n)
    \/ MoreRuns /\ \E cl \in CommandLines : Parse(cl[1], cl[2])
    \/ MoreRuns /\ \E cl \in CommandLines : Execute(cl[1], cl[2])

SpecConfig == Init /\ [][NextConfig]_vars

-----------------------------------------------------------------------------
(* The merge engine on one parameter: SpecAnalyze draws a parameter, the   *)
(* docstring and the @arg override of its function, and Analyze runs       *)
(* _analyze_func and the hand-over to add_argument on them.                *)

ParamNames == {"x", "ab", "_x"}
Defaults == {None, "True", "False", "1", "1.1", "'s'", "[]", "[1, 2]", "[1, False]", "['a']"}
Annotations == {Empty, "int", "float"}

AnalyzeParams ==
    {Param(n, "POS", d, a) : n \in ParamNames, d \in Defaults \cup {Empty}, a \in Annotations}
    \cup {Param(n, "VAR", Empty, a) : n \in ParamNames, a \in Annotations}

\* the docstrings tried for a parameter n: none, one documenting n, one
\* documenting n as an option
AnalyzeDocs(n) ==
    { <<>>,
      <<TextLine("help"), BlankLine, ParamLine(n, "about")>>,
      <<ParamLine("--" \o n, "about")>> }

AnalyzeOverrides ==
    { NoOverride,
      <<<<>>, [type |-> "int"]>>,
      <<<<>>, [metavar |-> "'<levels>'", help |-> "'h'"]>>,
      <<<<"-d", "--depth">>, [metavar |-> None]>>,
      <<<<"-p">>, [dest |-> "other", default |-> "2"]>>,
      <<<<>>, [action |-> "store_const", type |-> None]>> }

AnalyzeInputs ==
    {[param |-> p, doc |-> d, override |-> o] :
        p \in AnalyzeParams, d \in UNION {AnalyzeDocs(n) : n \in ParamNames}, o \in AnalyzeOverrides}

InitAnalyze ==
    /\ FreshProgram
    /\ pin \in AnalyzeInputs
    /\ pout = <<>>

\* the function whose only parameter is pin.param
AnalyzedFunc == [name |-> "f", params |-> <<pin.param>>, doc |-> pin.doc]

AnalyzedOverrides ==
    IF pin.override = NoOverride THEN EmptyDict
    ELSE [n \in {pin.param.name} |-> pin.override]

Analyze ==
    /\ pout = <<>>
    /\ LET doc_params == docstring(pin.doc).params
           spec == _analyze_func(signatures, AnalyzedFunc, AnalyzedOverrides, doc_params)[1]
       IN  pout' = <<[yielded |-> spec,
                      handed |-> Handed(spec),
                      inferred |-> IF pin.param.default # Empty
                                   THEN _action_by_type(pin.param.default)
                                   ELSE EmptyDict]>>
    /\ UNCHANGED <<progVars, pin>>

NextAnalyze == Analyze

SpecAnalyze == InitAnalyze /\ [][NextAnalyze]_vars

-----------------------------------------------------------------------------
(* _ensure_dashes on a list of names, and again on its own output *)

MaxOpts == 3

OptNames == {"m", "min", "-m", "--min", "l", "less", "-", "m-n"}

InitDashes ==
    /\ FreshProgram
    /\ pin \in SeqsUpTo(OptNames, MaxOpts)
    /\ pout = <<>>

EnsureDashes ==
    /\ pout = <<>>
    /\ pout' = <<_ensure_dashes(pin)>>
    /\ UNCHANGED <<progVars, pin>>

EnsureDashesAgain ==
    /\ Len(pout) = 1
    /\ pout' = Append(pout, _ensure_dashes(pout[1]))
    /\ UNCHANGED <<progVars, pin>>

NextDashes == EnsureDashes \/ EnsureDashesAgain

SpecDashes == InitDashes /\ [][NextDashes]_vars

-----------------------------------------------------------------------------
(* docstring() on a docstring of up to MaxLines lines *)

MaxLines == 4

DocLines ==
    {BlankLine, TextLine("help"), TextLine("desc"), ParamLine("a-param", "Short story.")}

InitDoc ==
    /\ FreshProgram
    /\ pin \in SeqsUpTo(DocLines, MaxLines)
    /\ pout = <<>>

Docstring ==
    /\ pout = <<>>
    /\ pout' = <<docstring(pin)>>
    /\ UNCHANGED <<progVars, pin>>

NextDoc == Docstring

SpecDoc == InitDoc /\ [][NextDoc]_vars

-----------------------------------------------------------------------------
(* The help formatter: FlexiHelpFormatter._para_reformat on a text of      *)
(* letters, bullets, spaces and line ends. A text is a string; its lines   *)
(* and the chunks of a paragraph are sequences of strings.                 *)

LF == "\n"
CR == "\r"

\* the i-th character of s
CharAt(s, i) == SubSeq(s, i, i)

\* the characters of a text
Chars == {"a", "*", " ", LF, CR}

\* those for which str.isspace holds, and the others
IsSpace == {" ", LF, CR}

IsInWord == Chars \ IsSpace

\* the characters [*\-+>] that make a bullet, and \w
IsBullet == {"*", "-", "+", ">"}

IsWord == {"a"}

\* " " * n
RECURSIVE Spaces(_)
Spaces(n) == IF n <= 0 THEN "" ELSE " " \o Spaces(n - 1)

\* how many characters from position i on are in P
RECURSIVE RunLength(_, _, _)
RunLength(s, i, P) ==
    IF i <= Len(s) /\ CharAt(s, i) \in P THEN 1 + RunLength(s, i + 1, P) ELSE 0

IsBlank == {" "}

IsLF == {LF}

\* str.strip()
RECURSIVE strip(_)
strip(s) ==
    IF s = "" THEN s
    ELSE IF Head(s) \in IsSpace THEN strip(Tail(s))
    ELSE IF CharAt(s, Len(s)) \in IsSpace THEN strip(SubSeq(s, 1, Len(s) - 1))
    ELSE s

\* str.split("\n"): the pieces between the line feeds
RECURSIVE SplitLF(_, _)
SplitLF(s, cur) ==
    IF s = "" THEN <<cur>>
    ELSE IF Head(s) = LF THEN <<cur>> \o SplitLF(Tail(s), "")
    ELSE SplitLF(Tail(s), cur \o Head(s))

\* "\n".join(lines)
RECURSIVE JoinLF(_)
JoinLF(ls) ==
    IF ls = <<>> THEN ""
    ELSE IF Len(ls) = 1 THEN ls[1]
    ELSE ls[1] \o LF \o JoinLF(Tail(ls))

Min(S) == CHOOSE m \in S : \A n \in S : m <= n

\* textwrap.dedent, on the lines between line feeds: a line of blanks alone
\* is emptied, and the margin shared by the other lines is cut off each
DedentLines(ls, margin) ==
    [i \in 1..Len(ls) |->
        IF RunLength(ls[i], 1, IsBlank) >= margin
        THEN SubSeq(ls[i], margin + 1, Len(ls[i]))
        ELSE ls[i]]

Margin(ls) ==
    IF \A i \in 1..Len(ls) : ls[i] = "" THEN 0
    ELSE Min({RunLength(ls[i], 1, IsBlank) : i \in {j \in 1..Len(ls) : ls[j] # ""}})

EmptyBlankLines(ls) ==
    [i \in 1..Len(ls) |-> IF RunLength(ls[i], 1, IsBlank) = Len(ls[i]) THEN "" ELSE ls[i]]

DedentNormalized(ls) == DedentLines(ls, Margin(ls))

dedent(text) == JoinLF(DedentNormalized(EmptyBlankLines(SplitLF(text, ""))))

\* re.sub("\n\n[\n]+", "\n\n", text): three line feeds or more become two
RECURSIVE CollapseLF(_)
CollapseLF(s) ==
    IF s = "" THEN s
    ELSE IF RunLength(s, 1, IsLF) >= 3
    THEN LF \o LF \o CollapseLF(SubSeq(s, RunLength(s, 1, IsLF) + 1, Len(s)))
    ELSE Head(s) \o CollapseLF(Tail(s))

\* str.splitlines(): a line ends at "\n", at "\r" and at "\r\n"
RECURSIVE SplitLines(_, _)
SplitLines(s, cur) ==
    IF s = "" THEN (IF cur = "" THEN <<>> ELSE <<cur>>)
    ELSE IF Head(s) = CR /\ Len(s) > 1 /\ CharAt(s, 2) = LF
    THEN <<cur>> \o SplitLines(SubSeq(s, 3, Len(s)), "")
    ELSE IF Head(s) \in {LF, CR} THEN <<cur>> \o SplitLines(Tail(s), "")
    ELSE SplitLines(Tail(s), cur \o Head(s))

splitlines(s) == SplitLines(s, "")

\* the length of the list marker at position i of the line, with the blanks
\* after it: bullets or a word closed by ")" or ".", then one blank at least
MarkerAt(line, i, n) ==
    IF n > 0 /\ RunLength(line, i + n, IsBlank) > 0
    THEN n + RunLength(line, i + n, IsBlank)
    ELSE 0

WordMarker(line, i, n) ==
    IF n > 0 /\ i + n <= Len(line) /\ CharAt(line, i + n) \in {")", "."} THEN n + 1 ELSE 0

ListMarker(line, i) ==
    IF RunLength(line, i, IsBullet) > 0
    THEN MarkerAt(line, i, RunLength(line, i, IsBullet))
    ELSE MarkerAt(line, i, WordMarker(line, i, RunLength(line, i, IsWord)))

\* FlexiHelpFormatter._indents
IndentsOf(indent, marker) == <<indent, indent + marker>>

_indents(line) ==
    IndentsOf(RunLength(line, 1, IsBlank), ListMarker(line, RunLength(line, 1, IsBlank) + 1))

\* the loop of _split_paragraphs: a line of text whose indents are those of
\* the line before it joins its paragraph
RECURSIVE SplitParagraphs(_, _, _, _)
SplitParagraphs(ls, i, last_sub_indent, paragraphs) ==
    IF i > Len(ls) THEN paragraphs
    ELSE LET ind == _indents(ls[i])
             is_text == Len(strip(ls[i])) > 0
         IN  SplitParagraphs(
                 ls, i + 1,
                 IF is_text THEN ind[2] ELSE -1,
                 IF is_text /\ ind[1] = ind[2] /\ ind[2] = last_sub_indent
                 THEN [paragraphs EXCEPT ![Len(paragraphs)] = @ \o " " \o ls[i]]
                 ELSE Append(paragraphs, ls[i]))

\* FlexiHelpFormatter._split_paragraphs
_split_paragraphs(text) ==
    SplitParagraphs(splitlines(CollapseLF(strip(dedent(text)))), 1, -1, <<>>)

\* self._whitespace_matcher.sub(" ", paragraph)
RECURSIVE SquashSpace(_)
SquashSpace(s) ==
    IF s = "" THEN s
    ELSE IF Head(s) \in IsSpace
    THEN " " \o SquashSpace(SubSeq(s, RunLength(s, 1, IsSpace) + 1, Len(s)))
    ELSE Head(s) \o SquashSpace(Tail(s))

\* TextWrapper._split_chunks: the words of the text and the blanks between
RECURSIVE Chunks(_)
Chunks(s) ==
    IF s = "" THEN <<>>
    ELSE IF Head(s) \in IsSpace
    THEN <<SubSeq(s, 1, RunLength(s, 1, IsSpace))>>
         \o Chunks(SubSeq(s, RunLength(s, 1, IsSpace) + 1, Len(s)))
    ELSE <<SubSeq(s, 1, RunLength(s, 1, IsInWord))>>
         \o Chunks(SubSeq(s, RunLength(s, 1, IsInWord) + 1, Len(s)))

RECURSIVE Concat(_)
Concat(ss) == IF ss = <<>> THEN "" ELSE ss[1] \o Concat(Tail(ss))

\* the inner loop of _wrap_chunks: the chunks that fit the width left
RECURSIVE Fill(_, _, _)
Fill(chunks, cur_line, width) ==
    IF chunks # <<>> /\ Len(Concat(cur_line)) + Len(chunks[1]) <= width
    THEN Fill(Tail(chunks), Append(cur_line, chunks[1]), width)
    ELSE <<chunks, cur_line>>

\* _handle_long_word: a chunk longer than the width is cut where the room
\* left ends (one character when the width is below one)
SpaceLeft(cur_line, width) == IF width < 1 THEN 1 ELSE width - Len(Concat(cur_line))

HandleLongWord(chunks, cur_line, end) ==
    <<<<SubSeq(chunks[1], end + 1, Len(chunks[1]))>> \o Tail(chunks),
      Append(cur_line, SubSeq(chunks[1], 1, end))>>

LongWord(c, width) ==
    IF c[1] # <<>> /\ Len(c[1][1]) > width
    THEN HandleLongWord(c[1], c[2], SpaceLeft(c[2], width))
    ELSE c

\* drop_whitespace: a blank chunk at the end of a line is dropped
DropLast(c) ==
    IF c[2] # <<>> /\ strip(c[2][Len(c[2])]) = ""
    THEN <<c[1], SubSeq(c[2], 1, Len(c[2]) - 1)>>
    ELSE c

\* ... and one that would start a line after the first
DropFirst(chunks, lines) ==
    IF lines # <<>> /\ strip(chunks[1]) = "" THEN Tail(chunks) ELSE chunks

\* the outer loop of TextWrapper._wrap_chunks
RECURSIVE WrapChunks(_, _, _, _, _)
Emit(lines, indent, c, width, initial_indent, subsequent_indent) ==
    WrapChunks(c[1],
               IF c[2] # <<>> THEN Append(lines, indent \o Concat(c[2])) ELSE lines,
               width, initial_indent, subsequent_indent)

WrapLine(chunks, lines, indent, width, initial_indent, subsequent_indent) ==
    Emit(lines, indent,
         DropLast(LongWord(Fill(chunks, <<>>, width - Len(indent)), width - Len(indent))),
         width, initial_indent, subsequent_indent)

WrapChunks(chunks, lines, width, initial_indent, subsequent_indent) ==
    IF chunks = <<>> THEN lines
    ELSE IF DropFirst(chunks, lines) = <<>> THEN lines
    ELSE WrapLine(DropFirst(chunks, lines), lines,
                  IF lines # <<>> THEN subsequent_indent ELSE initial_indent,
                  width, initial_indent, subsequent_indent)

\* textwrap.wrap(text, width, initial_indent, subsequent_indent)
wrap(text, width, initial_indent, subsequent_indent) ==
    WrapChunks(Chunks(text), <<>>, width, initial_indent, subsequent_indent)

\* the body of the loop of _para_reformat: the lines of one paragraph
OrBlank(new_lines) == IF new_lines = <<>> THEN <<"">> ELSE new_lines

ReformatParagraph(paragraph, width, ind) ==
    OrBlank(wrap(strip(SquashSpace(paragraph)), width, Spaces(ind[1]), Spaces(ind[2])))

RECURSIVE ReformatFrom(_, _, _)
ReformatFrom(paragraphs, i, width) ==
    IF i > Len(paragraphs) THEN <<>>
    ELSE ReformatParagraph(paragraphs[i], width, _indents(paragraphs[i]))
         \o ReformatFrom(paragraphs, i + 1, width)

\* FlexiHelpFormatter._para_reformat
_para_reformat(text, width) == ReformatFrom(_split_paragraphs(text), 1, width)

\* the texts and widths tried
MaxChars == 5

Widths == {1, 3, 11}

RECURSIVE Texts(_)
Texts(n) == IF n = 0 THEN {""} ELSE {""} \cup {c \o t : c \in Chars, t \in Texts(n - 1)}

InitReflow ==
    /\ FreshProgram
    /\ pin \in {[text |-> t, width |-> w] : t \in Texts(MaxChars), w \in Widths}
    /\ pout = <<>>

ParaReformat ==
    /\ pout = <<>>
    /\ pout' = <<_para_reformat(pin.text, pin.width)>>
    /\ UNCHANGED <<progVars, pin>>

NextReflow == ParaReformat

SpecReflow == InitReflow /\ [][NextReflow]_vars

-----------------------------------------------------------------------------
(* Properties of the merge engine (under SpecAnalyze) *)

Analyzed == pout # <<>>
PinOverrideKw == pin.override[2]
PinDocParams == docstring(pin.doc).params
\* what the parameter yields with no override attached
ComputedSpec == AnalyzeParam(pin.param, EmptyDict, PinDocParams)

\* C2 (as claimed): a non-variadic parameter annotated T whose override gives
\* no `type` key ends with type = T in the merged metadata, whatever its
\* default value is.
C2_AnnotationTakesPrecedence ==
    (/\ Analyzed
     /\ pin.param.kind # "VAR"
     /\ pin.param.annotation # Empty
     /\ "type" \notin DOMAIN PinOverrideKw)
    => /\ "type" \in DOMAIN pout[1].yielded[2]
       /\ pout[1].yielded[2]["type"] = pin.param.annotation

\* C3: a parameter with no default and no override is handed to add_argument
\* with option-strings exactly [p], with no `metavar` key, no `dest` and no
\* `action`, and with no `default` other than the docstring's own.
C3_PositionalSpecIsBare ==
    (/\ Analyzed
     /\ pin.param.default = Empty
     /\ pin.override = NoOverride)
    => LET kw == pout[1].handed[2]
       IN  /\ pout[1].handed[1] = <<pin.param.name>>
           /\ "metavar" \notin DOMAIN kw
           /\ "dest" \notin DOMAIN kw
           /\ "action" \notin DOMAIN kw
           /\ "default" \in DOMAIN kw =>
                 /\ pin.param.name \in DOMAIN PinDocParams
                 /\ kw["default"] = PinDocParams[pin.param.name][2]["default"]

C3_Witness ==
    /\ Analyzed
    /\ pin.param.kind = "POS"
    /\ pin.param.default = Empty
    /\ pin.override = NoOverride
    /\ pin.param.name \in DOMAIN PinDocParams
    /\ "help" \in DOMAIN pout[1].handed[2]

\* C4: in merge, non-empty override option-strings replace the computed ones
\* and empty ones keep them; every override key has the override's value and
\* every other key keeps its computed value.
C4_OverrideReplaces ==
    (Analyzed /\ pin.param.kind # "VAR")
    => LET m == pout[1].yielded
           c == ComputedSpec
           o == pin.override
       IN  /\ o[1] # <<>> => m[1] = o[1]
           /\ o[1] = <<>> => m[1] = c[1]
           /\ DOMAIN m[2] = DOMAIN c[2] \cup DOMAIN o[2]
           /\ \A k \in DOMAIN o[2] : m[2][k] = o[2][k]
           /\ \A k \in DOMAIN c[2] \ DOMAIN o[2] : m[2][k] = c[2][k]

C4_Witness ==
    /\ Analyzed
    /\ pin.param.kind = "POS"
    /\ pin.param.default = "1"
    /\ pin.override = <<<<"-p">>, [dest |-> "other", default |-> "2"]>>
    /\ pout[1].yielded[1] = <<"-p">>
    /\ pout[1].yielded[2]["dest"] = "other"
    /\ pout[1].yielded[2]["type"] = "int"

\* the element type the claim expects for a list default: the one basic type
\* all its elements share, None for an empty or mixed list
ElementType(l) ==
    CASE l = "[1, 2]" -> "int"
      [] l = "['a']" -> "str"
      [] OTHER -> None

\* C5 (as claimed): a list default infers the append action, and a `type`
\* key exactly when the list is non-empty with one shared basic element type.
C5_ListInfersElementType ==
    (Analyzed /\ TypeOf(pin.param.default) = "list")
    => LET inf == pout[1].inferred
       IN  /\ "action" \in DOMAIN inf /\ inf["action"] = "append"
           /\ ("type" \in DOMAIN inf) <=> (ElementType(pin.param.default) # None)
           /\ "type" \in DOMAIN inf => inf["type"] = ElementType(pin.param.default)

-----------------------------------------------------------------------------
(* Properties of _ensure_dashes (under SpecDashes) *)

\* C6: the output has the input's length and order; a name starting with a
\* dash is unchanged, a one-character name gets one dash, a longer one two,
\* each decided on its own; applying it to its own output changes nothing.
C6_EnsureDashes ==
    /\ Len(pout) >= 1 =>
          /\ Len(pout[1]) = Len(pin)
          /\ \A i \in 1..Len(pin) :
                /\ StartsWith(pin[i], "-") => pout[1][i] = pin[i]
                /\ (~StartsWith(pin[i], "-") /\ Len(pin[i]) = 1) => pout[1][i] = "-" \o pin[i]
                /\ (~StartsWith(pin[i], "-") /\ Len(pin[i]) > 1) => pout[1][i] = "--" \o pin[i]
                /\ pout[1][i] = _ensure_dashes(<<pin[i]>>)[1]
    /\ Len(pout) = 2 => pout[2] = pout[1]

C6_Witness ==
    /\ Len(pout) = 2
    /\ pin = <<"-m", "min", "l">>
    /\ pout[1] = <<"-m", "--min", "-l">>

-----------------------------------------------------------------------------
(* Properties of docstring() (under SpecDoc) *)

\* C7: the short and the long description are never null; the long one is
\* the parsed long description when there is one, else the short one; with
\* neither, both are the empty string.
C7_DescriptionsNeverNull ==
    pout # <<>> =>
        LET parsed == ds_parse(pin)
            doc == pout[1]
        IN  /\ doc.short_description # None
            /\ doc.long_description # None
            /\ parsed.long_description # None =>
                   doc.long_description = parsed.long_description
            /\ parsed.long_description = None =>
                   doc.long_description = doc.short_description
            /\ parsed.short_description # None =>
                   doc.short_description = parsed.short_description
            /\ (parsed.short_description = None /\ parsed.long_description = None) =>
                   (doc.short_description = "" /\ doc.long_description = "")

C7_Witness ==
    /\ pout # <<>>
    /\ pin = <<TextLine("help")>>
    /\ pout[1].short_description = "help"
    /\ pout[1].long_description = "help"

-----------------------------------------------------------------------------
(* Properties of registration and dispatch (under Spec) *)

\* the call-argument list the claim expects: the function's own parameters
\* walked in declaration order over the parsed values
RECURSIVE WalkParams(_, _, _)
WalkParams(params, i, ns) ==
    IF i > Len(params) THEN <<>>
    ELSE LET v == ns[params[i].name]
         IN  (IF params[i].kind = "VAR"
              THEN [j \in 1..Len(v.l) |-> Val(v.l[j])]
              ELSE <<v>>) \o WalkParams(params, i + 1, ns)

\* C1 (as claimed): for every registered command and every command line the
\* parser accepts for it, parse returns the registered function and the list
\* built by walking that function's parameters in declaration order, one
\* entry per non-variadic parameter and a variadic one spliced in place.
C1_ParseWalksOwnParameters ==
    (last.op = "parse" /\ last.accepted /\ last.command # None)
    => LET params == Func(last.command).params
       IN  /\ last.outcome = "returned"
           /\ last.func = last.command
           /\ \A i \in 1..Len(params) : params[i].name \in DOMAIN last.ns
           /\ last.real_args = WalkParams(params, 1, last.ns)

\* C8 (as claimed): a registration leaves the function's own name a key of
\* the signature registry, and no registration changes an entry the registry
\* already holds.
C8_FirstRegistrationWins ==
    [][/\ \A n \in DOMAIN signatures :
             n \in DOMAIN signatures' /\ signatures'[n] = signatures[n]
       /\ (last'.op = "command" /\ last'.outcome # "ArgumentError")
             => Func(last'.f).name \in DOMAIN signatures']_vars

\* C10 (as claimed): the current command is null while no execute has
\* resolved a function and else the own name of the function the latest
\* resolving execute resolved; an execute that resolves none ends in the
\* usage error, invokes nothing and leaves the current command unchanged.
C10_CurrentCommandFollowsExecute ==
    /\ current_command = resolved
    /\ last.op = "execute" =>
          \/ /\ last.outcome = "returned"
             /\ current_command = Func(last.func).name
          \/ /\ last.outcome = "usage_error"
             /\ last.command = None
             /\ ~last.invoked
             /\ current_command = last.before

\* the registry holds, under the function's name, the function's own signature
OwnSignature(f) ==
    /\ Func(f).name \in DOMAIN signatures
    /\ signatures[Func(f).name] = Signature(Func(f))

NonVariadicNames(f) ==
    {Func(f).params[i].name :
        i \in {j \in 1..Len(Func(f).params) : Func(f).params[j].kind # "VAR"}}

\* C14 (as claimed): whatever overrides arg() attached to a registered
\* command, every command line the parser accepts for it makes parse complete
\* normally: the parsed values hold an entry under the name of each
\* non-variadic parameter of the function and the walk raises nothing. (Taken
\* where the registry holds the function's own signature.)
C14_AcceptedArgvReassembles ==
    (/\ last.op = "parse"
     /\ last.accepted
     /\ last.command # None
     /\ OwnSignature(last.command))
    => /\ NonVariadicNames(last.command) \subseteq DOMAIN last.ns
       /\ last.outcome = "returned"

\* C15 (as claimed): after any registrations in the program tree, a
\* dispatch to a command reassembles the call arguments from the signature of
\* the very function bound to that command, also when another registered
\* function has the same function name and other parameters: the signature
\* the walk reads is the bound function's own, and the walk does not miss a
\* name the parser stored for that function.
C15_DispatchReadsBoundSignature ==
    (/\ last.op \in {"parse", "execute"}
     /\ last.accepted
     /\ last.command # None)
    => /\ OwnSignature(last.command)
       /\ NonVariadicNames(last.command) \subseteq DOMAIN last.ns
             => last.outcome # "KeyError"

-----------------------------------------------------------------------------
(* Properties of option() and add_subprog() (under SpecConfig) *)

ConfigErrors == {"AssertionError", "ArgumentError", "ValueError", "TypeError"}

\* whether x is an attribute of the node at path: one every node has, a
\* sub-program added to it, or on the root a name of the last namespace
IsAttribute(path, x) ==
    \/ x \in SubProgramAttrs
    \/ path = Root /\ x \in ProgramAttrs
    \/ Append(path, x) \in DOMAIN tree /\ tree[Append(path, x)].kind = "program"
    \/ path = Root /\ options # <<>> /\ x \in DOMAIN options[1]

\* C9 (as claimed): option() whose dest is the dest of an option the node
\* already has, and add_subprog() whose name is that of a sub-program the
\* node already has, raise at the call.
C9_DuplicateIsConfigError ==
    /\ (last.op = "option" /\ last.dup) => last.outcome \in ConfigErrors
    /\ (last.op = "add_subprog" /\ last.dup) => last.outcome \in ConfigErrors

\* C9 (amended): option() raises at the call when its dest is an attribute
\* the node already has or when it repeats an option string of the node, and
\* add_subprog() when its name is that of a sub-program the node already has.
C9_ClashIsConfigError ==
    /\ (last.op = "option" /\ last.dest # None /\ IsAttribute(last.path, last.dest))
          => last.outcome \in ConfigErrors
    /\ (last.op = "option" /\ last.repeats) => last.outcome \in ConfigErrors
    /\ (last.op = "add_subprog" /\ last.dup) => last.outcome \in ConfigErrors

\* an option whose dest the last parsed namespace holds was turned down
C9_Witness ==
    /\ last.op = "option"
    /\ last.path = Root
    /\ last.dest = "foo"
    /\ last.dup
    /\ ~last.repeats
    /\ options # <<>>
    /\ "foo" \in DOMAIN options[1]
    /\ last.outcome = "AssertionError"

-----------------------------------------------------------------------------
(* Properties of docstring() feeding _analyze_func (under SpecAnalyze) *)

\* the docstring documents the parameter under the parameter's own name
DocumentedByName ==
    \E i \in 1..Len(pin.doc) :
        pin.doc[i].k = "param" /\ pin.doc[i].name = pin.param.name

DocumentedHelp ==
    (CHOOSE l \in {pin.doc[i] : i \in 1..Len(pin.doc)} :
        l.k = "param" /\ l.name = pin.param.name).text

\* C12 (as claimed): a parameter the docstring documents under the
\* parameter's own name is addressable: docstring() holds its entry under
\* the real parameter name, with the documented name as the single option
\* string, and the spec the parameter yields carries the docstring's help
\* text (when no override replaces the help).
C12_DocumentedParameterIsAddressable ==
    (/\ Analyzed
     /\ DocumentedByName
     /\ "help" \notin DOMAIN PinOverrideKw)
    => /\ pin.param.name \in DOMAIN PinDocParams
       /\ PinDocParams[pin.param.name][1] = <<pin.param.name>>
       /\ "help" \in DOMAIN pout[1].yielded[2]
       /\ pout[1].yielded[2]["help"] = DocumentedHelp

\* the metadata docstring() holds under the parameter's name
SuppliedMeta ==
    IF pin.param.name \in DOMAIN PinDocParams
    THEN PinDocParams[pin.param.name][2]
    ELSE EmptyDict

\* C13: a variadic parameter never goes through merge: it yields the
\* option-strings [name] and nargs = "*" with nothing else than the metadata
\* the docstring supplies for that name; an override attached for the name
\* changes neither, and no `dest`, no `action` and no inferred `type` is added.
C13_VariadicBypassesMerge ==
    (Analyzed /\ pin.param.kind = "VAR")
    => LET kw == pout[1].yielded[2]
       IN  /\ pout[1].yielded[1] = <<pin.param.name>>
           /\ "nargs" \in DOMAIN kw /\ kw["nargs"] = "*"
           /\ DOMAIN kw = {"nargs"} \cup DOMAIN SuppliedMeta
           /\ \A k \in DOMAIN SuppliedMeta : kw[k] = SuppliedMeta[k]
           /\ pout[1].yielded = ComputedSpec
           /\ "dest" \notin DOMAIN kw
           /\ "action" \notin DOMAIN kw
           /\ "type" \notin DOMAIN pout[1].handed[2]

\* a documented *args with an override that gives option strings and a dest
C13_Witness ==
    /\ Analyzed
    /\ pin.param.kind = "VAR"
    /\ pin.param.annotation # Empty
    /\ pin.override[1] # <<>>
    /\ "dest" \in DOMAIN PinOverrideKw
    /\ "help" \in DOMAIN SuppliedMeta
    /\ "help" \in DOMAIN pout[1].yielded[2]

-----------------------------------------------------------------------------
(* Properties of the help formatter (under SpecReflow) *)

\* the lines the formatter returned for the text
Reflowed == pout[1]

IsBlankLine(line) == strip(line) = ""

\* a paragraph break of the input: a run of blank lines with a line of text
\* before it and one after it, counted at the first blank line of the run
ParagraphBreaks(ls) ==
    {i \in 2..Len(ls) :
        /\ IsBlankLine(ls[i])
        /\ ~IsBlankLine(ls[i - 1])
        /\ \E j \in (i + 1)..Len(ls) : ~IsBlankLine(ls[j])}

EmptyLines(ls) == {i \in 1..Len(ls) : ls[i] = ""}

\* C11: for every help text and width the reflowed lines hold exactly one
\* empty line for each paragraph break of the input, whether the break is one
\* blank line or a run of them; the output neither starts nor ends with an
\* empty line, and no two empty lines follow each other.
C11_OneEmptyLinePerParagraphBreak ==
    pout # <<>> =>
        /\ Cardinality(EmptyLines(Reflowed))
             = Cardinality(ParagraphBreaks(splitlines(pin.text)))
        /\ Reflowed # <<>> => Reflowed[1] # "" /\ Reflowed[Len(Reflowed)] # ""
        /\ \A i \in 1..(Len(Reflowed) - 1) :
             ~(Reflowed[i] = "" /\ Reflowed[i + 1] = "")

====
